---- MODULE Spec2Model ----
(***************************************************************************)
(* KMP socket interface (kmp_socket_if.c): the registry of                 *)
(* (service, instance) bindings, each backed by one UDP socket, with the   *)
(* relay header written on send and parsed on receive.                     *)
(*                                                                         *)
(* Every handler (register, unregister, send, socket callback) runs to     *)
(* completion on the event loop, so each is one atomic action.  The        *)
(* variable last is a history variable: what the most recent call did      *)
(* (its result, the transport and service-layer calls it made, in order).  *)
(*                                                                         *)
(* An entry that was released with ns_dyn_mem_free while still linked in   *)
(* kmp_socket_if_list stays in the list as ReleasedEntry.  Reading a field *)
(* of such an entry is a read of freed memory: it yields an arbitrary      *)
(* value of the field's type (Stale...).  The list linkage itself is taken *)
(* to stay intact and a write to a released entry changes nothing else.    *)
(***************************************************************************)
EXTENDS Integers, Sequences, FiniteSets, TLC

VARIABLES
    kmp_socket_if_list,         \* the entries linked in the list, in order
    kmp_socket_if_instance_id,  \* static uint8_t allocation counter
    sockets,                    \* transport: the socket ids that are open
    unregistered,               \* history: ids closed by unregister, not reopened
    allocated,                  \* history: instance ids written back so far
    last                        \* history: what the most recent call did

vars == <<kmp_socket_if_list, kmp_socket_if_instance_id, sockets,
          unregistered, allocated, last>>

----------------------------------------------------------------------------
(* Bounds of the model *)

NumServices == 2
MaxBindings == 2
MaxSockets == 2
MaxCounter == 3

(* Program constants *)

SOCKET_IF_HEADER_SIZE == 27
Uint8Mod == 256
Uint16Mod == 65536

NULL == 0
Services == 1 .. NumServices
SocketIds == 0 .. (MaxSockets - 1)
InstanceIds == 0 .. (MaxCounter - 1)
\* remote endpoints: address 0 is the all-zero address, port 0 the zero port,
\* which is what a freshly memset entry holds
NullAddr == -1
\* the (remote_addr, remote_port) pairs the calls are made with
Endpoints == {<<0, 0>>, <<1, 0>>, <<1, 1>>}

----------------------------------------------------------------------------
(* kmp_socket_if_t *)

NewEntry ==
    [kmp_service |-> NULL, instance_id |-> 0, relay |-> FALSE,
     address |-> 0, identifier |-> 0, socket_id |-> -1, released |-> FALSE]

\* a block given back to the allocator; its contents are indeterminate
ReleasedEntry == [NewEntry EXCEPT !.released = TRUE]

\* what kmp_socket_if_register may read from the fields of entry e that it
\* reads before writing them (remote_addr and socket_id)
StaleForRegister ==
    {[ReleasedEntry EXCEPT !.address = ep[1], !.identifier = ep[2],
                           !.socket_id = h] :
        ep \in Endpoints, h \in {-1} \cup SocketIds}

ObserveForRegister(e) == IF e.released THEN StaleForRegister ELSE {e}

Indices == 1 .. Len(kmp_socket_if_list)
LiveIndices == {i \in Indices : ~kmp_socket_if_list[i].released}
ReleasedIndices == {i \in Indices : kmp_socket_if_list[i].released}

MaxOf(S) == CHOOSE x \in S : \A y \in S : y <= x
MinOf(S) == CHOOSE x \in S : \A y \in S : x <= y

----------------------------------------------------------------------------
(* History record of one call *)

Quiet ==
    [op |-> "none", ret |-> 0, service |-> NULL, socket_id |-> -1,
     id_in |-> 0, id_out |-> 0,
     new |-> FALSE, found |-> 0, changed |-> FALSE,
     transport |-> <<>>, service_calls |-> <<>>,
     pdu_allocs |-> 0, pdu_frees |-> 0, null_pdu |-> FALSE,
     flipped |-> FALSE, kmp_id |-> 0, addr |-> <<>>, pdu |-> <<>>,
     short_read |-> FALSE, d_len |-> 0, relay |-> FALSE, tag |-> 0,
     stale_access |-> FALSE, double_free |-> FALSE, repeat |-> FALSE]

----------------------------------------------------------------------------
(* Transport and service layer (external collaborators) *)

\* socket_open: a socket id that is not open, or -1
socket_open(open) == {-1} \cup (SocketIds \ open)

\* socket_close: the id is no longer open
socket_close(open, h) == open \ {h}

\* kmp_service_msg_if_register(service, instance_id, send, header_size) as
\* the service layer records it; send is TRUE for kmp_socket_if_send and
\* FALSE for NULL
MsgIfRegister(service, instance_id, send, header_size) ==
    <<"msg_if_register", service, instance_id, send, header_size>>

----------------------------------------------------------------------------
(* kmp_socket_if_register *)

\* lines 69-73: the loop does not break, the last matching entry wins; a
\* released entry may or may not compare equal
RegisterLookup(service, instance_id) ==
    LET hits == {i \in LiveIndices :
                    /\ kmp_socket_if_list[i].kmp_service = service
                    /\ kmp_socket_if_list[i].instance_id = instance_id}
    IN  {IF hits \cup S = {} THEN 0 ELSE MaxOf(hits \cup S) :
            S \in SUBSET ReleasedIndices}

\* a skip of the value 0 that was left out
AssignedIdNoSkip(c) == c

\* lines 88-91: the id handed out for counter value c
AssignedId(c) == IF c = 0 THEN 1 ELSE c

\* line 88: the post-increment of the uint8_t counter
CounterAfter(c) == (c + 1) % Uint8Mod

\* lines 100-101
AddressChanged(e, remote_addr, remote_port) ==
    e.address # remote_addr \/ e.identifier # remote_port

\* line 107
NeedsSocket(e, address_changed) == e.socket_id < 0 \/ address_changed

\* an old socket that is left open
CloseOldNever(e) == <<>>

\* lines 108-110: the transport calls made before socket_open
CloseOld(e) ==
    IF e.socket_id >= 0 THEN <<(<<"close", e.socket_id>>)>> ELSE <<>>

\* an overhead that is never declared
HeaderSizeNone(relay) == 0

\* lines 118-121
HeaderSize(relay) == IF relay THEN SOCKET_IF_HEADER_SIZE ELSE 0

\* a new entry that was linked before the steps that can fail
ListAfterFreeLinked(list, found) ==
    IF found = 0 THEN Append(list, NewEntry)
    ELSE [list EXCEPT ![found] = ReleasedEntry]

\* lines 113 and 124: ns_dyn_mem_free(socket_if) on a failure; an entry that
\* is linked in the list stays linked
ListAfterFree(list, found) ==
    IF found = 0 THEN list ELSE [list EXCEPT ![found] = ReleasedEntry]

\* lines 128-130, and the in-place update of an existing entry
ListAfterSuccess(list, found, e) ==
    IF found = 0 THEN Append(list, e)
    ELSE IF list[found].released THEN list
    ELSE [list EXCEPT ![found] = e]

\* the body from line 85 on, for the entry e0 found at index found (0: new)
RegisterBody(service, instance_id, relay, remote_addr, remote_port, found, e0) ==
    LET alloc == instance_id = 0
        c == kmp_socket_if_instance_id
        e1 == [e0 EXCEPT !.kmp_service = service,
                         !.instance_id = IF alloc THEN AssignedId(c) ELSE @]
        id_out == IF alloc THEN e1.instance_id ELSE instance_id
        changed == AddressChanged(e1, remote_addr, remote_port)
        e2 == [e1 EXCEPT !.relay = relay, !.address = remote_addr,
                         !.identifier = remote_port]
        reopen == NeedsSocket(e2, changed)
        closes == IF reopen THEN CloseOld(e2) ELSE <<>>
        open1 == IF closes # <<>>
                 THEN socket_close(sockets, e2.socket_id) ELSE sockets
        stale == found # 0 /\ kmp_socket_if_list[found].released
        base == [Quiet EXCEPT !.op = "register",
                              !.id_in = instance_id, !.id_out = id_out,
                              !.new = (found = 0), !.found = found,
                              !.changed = changed,
                              !.flipped = (found # 0 /\ e0.relay # relay),
                              !.stale_access = (ReleasedIndices # {}),
                              !.repeat = (alloc /\ id_out \in allocated)]
    IN  /\ kmp_socket_if_instance_id' = IF alloc THEN CounterAfter(c) ELSE c
        /\ allocated' = IF alloc THEN allocated \cup {id_out} ELSE allocated
        /\ \E h \in (IF reopen THEN socket_open(open1) ELSE {e2.socket_id}) :
             LET opens == IF reopen THEN <<(<<"open", h>>)>> ELSE <<>>
                 open2 == IF reopen /\ h >= 0 THEN open1 \cup {h} ELSE open1
                 e3 == [e2 EXCEPT !.socket_id = h]
                 reg == MsgIfRegister(service, id_out, TRUE, HeaderSize(relay))
             IN  /\ sockets' = open2
                 /\ unregistered' = unregistered \ open2
                 /\ IF h < 0
                    THEN \* lines 112-115
                         /\ kmp_socket_if_list' =
                                ListAfterFree(kmp_socket_if_list, found)
                         /\ last' = [base EXCEPT !.ret = -1,
                                        !.transport = closes \o opens,
                                        !.double_free = stale]
                    ELSE \E reg_ok \in BOOLEAN :
                         IF ~reg_ok
                         THEN \* lines 123-126: the service layer refused
                              /\ kmp_socket_if_list' =
                                     ListAfterFree(kmp_socket_if_list, found)
                              /\ last' = [base EXCEPT !.ret = -1,
                                             !.transport = closes \o opens,
                                             !.service_calls = <<(<<"refused">>)>>,
                                             !.double_free = stale]
                         ELSE /\ kmp_socket_if_list' =
                                     ListAfterSuccess(kmp_socket_if_list, found, e3)
                              /\ last' = [base EXCEPT !.ret = 0,
                                             !.transport = closes \o opens,
                                             !.service_calls = <<reg>>]

kmp_socket_if_register(service, instance_id, relay, remote_addr, remote_port) ==
    IF service = NULL \/ remote_addr = NullAddr
    THEN \* lines 62-64
         /\ last' = [Quiet EXCEPT !.op = "register", !.ret = -1,
                                  !.id_in = instance_id,
                                  !.id_out = instance_id]
         /\ UNCHANGED <<kmp_socket_if_list, kmp_socket_if_instance_id,
                        sockets, unregistered, allocated>>
    ELSE \E found \in RegisterLookup(service, instance_id) :
         IF found = 0
         THEN \E alloc_ok \in BOOLEAN :
              IF ~alloc_ok
              THEN \* lines 76-79
                   /\ last' = [Quiet EXCEPT !.op = "register", !.ret = -1,
                                  !.id_in = instance_id,
                                  !.id_out = instance_id,
                                  !.stale_access = (ReleasedIndices # {})]
                   /\ UNCHANGED <<kmp_socket_if_list, kmp_socket_if_instance_id,
                                  sockets, unregistered, allocated>>
              ELSE RegisterBody(service, instance_id, relay, remote_addr,
                                remote_port, 0, NewEntry)
         ELSE \E e0 \in ObserveForRegister(kmp_socket_if_list[found]) :
              RegisterBody(service, instance_id, relay, remote_addr,
                           remote_port, found, e0)

----------------------------------------------------------------------------
(* kmp_socket_if_unregister *)

\* what kmp_socket_if_unregister may read from a released entry
StaleForUnregister(service) ==
    {[ReleasedEntry EXCEPT !.kmp_service = s, !.instance_id = i,
                           !.socket_id = h] :
        s \in {service, NULL}, i \in InstanceIds, h \in {-1} \cup SocketIds}

\* the entries as the loop of lines 141-148 reads them
UnregisterViews(service) ==
    {[i \in Indices |-> IF i \in ReleasedIndices THEN r[i]
                        ELSE kmp_socket_if_list[i]] :
        r \in [ReleasedIndices -> StaleForUnregister(service)]}

\* line 142
OwnedBy(e, service) == e.kmp_service = service

\* the indices of M in list order, from index i on
RECURSIVE InOrder(_, _)
InOrder(M, i) ==
    IF i > Len(kmp_socket_if_list) THEN <<>>
    ELSE (IF i \in M THEN <<i>> ELSE <<>>) \o InOrder(M, i + 1)

\* line 143: the list without the entries at the indices in M
RemoveAll(list, M) ==
    LET keep == InOrder(Indices \ M, 1)
    IN  [k \in 1 .. Len(keep) |-> list[keep[k]]]

kmp_socket_if_unregister(service) ==
    IF service = NULL
    THEN \* lines 137-139
         /\ last' = [Quiet EXCEPT !.op = "unregister", !.ret = -1]
         /\ UNCHANGED <<kmp_socket_if_list, kmp_socket_if_instance_id,
                        sockets, unregistered, allocated>>
    ELSE \E v \in UnregisterViews(service) :
         LET M == {i \in Indices : OwnedBy(v[i], service)}
             hit == InOrder(M, 1)
             closed == {v[i].socket_id : i \in M}
             ours == {v[i].socket_id : i \in M \cap LiveIndices}
         IN  /\ kmp_socket_if_list' = RemoveAll(kmp_socket_if_list, M)
             /\ sockets' = sockets \ closed
             /\ unregistered' =
                    (unregistered \cup (ours \cap sockets)) \ sockets'
             /\ last' = [Quiet EXCEPT
                    !.op = "unregister", !.ret = 0, !.service = service,
                    !.transport =
                        [k \in 1 .. Len(hit) |->
                            <<"close", v[hit[k]].socket_id>>],
                    !.service_calls =
                        [k \in 1 .. Len(hit) |->
                            MsgIfRegister(service, v[hit[k]].instance_id,
                                          FALSE, 0)],
                    !.stale_access = (ReleasedIndices # {}),
                    !.double_free = (M \cap ReleasedIndices # {})]
             /\ UNCHANGED <<kmp_socket_if_instance_id, allocated>>

----------------------------------------------------------------------------
(* Relay header (lines 173-182 and 223-238) *)

\* common_write_16_bit: big-endian
common_write_16_bit(value) == <<(value \div 256) % 256, value % 256>>

\* common_read_16_bit: big-endian
common_read_16_bit(b) == b[1] * 256 + b[2]

\* kmp_address_eui_64_get
kmp_address_eui_64_get(addr) == addr.eui_64

\* lines 175-181: the header written over the first 27 bytes of pdu
WriteHeader(pdu, addr, kmp_id) ==
    [i \in 1 .. Len(pdu) |->
        IF i <= 16 THEN addr.relay_address[i]
        ELSE IF i <= 18 THEN common_write_16_bit(addr.port)[i - 16]
        ELSE IF i <= 26 THEN kmp_address_eui_64_get(addr)[i - 18]
        ELSE IF i = 27 THEN kmp_id % Uint8Mod
        ELSE pdu[i]]

\* the message-type tags the type lookup knows
KMP_TYPE_NONE == 0
RegisteredTags == {1, 5, 6, 7}

\* kmp_api_type_from_id_get
kmp_api_type_from_id_get(tag) ==
    IF tag \in RegisteredTags THEN tag ELSE KMP_TYPE_NONE

\* the byte values a read past the end of the buffer may yield
OutOfBounds == {0, 5}

\* byte i (from 1) of a buffer holding data, a read past its end yielding fill
ByteAt(data, i, fill) == IF i <= Len(data) THEN data[i] ELSE fill

\* a parse that takes the identifier from where the port is
ParseHeaderShifted(data, fill) ==
    [relay_address |-> [i \in 1 .. 16 |-> ByteAt(data, i, fill)],
     port |-> common_read_16_bit(<<ByteAt(data, 17, fill),
                                   ByteAt(data, 18, fill)>>),
     eui_64 |-> [i \in 1 .. 8 |-> ByteAt(data, 16 + i, fill)],
     tag |-> ByteAt(data, 27, fill)]

\* lines 224-232: the fields parsed from the first 27 bytes
ParseHeader(data, fill) ==
    [relay_address |-> [i \in 1 .. 16 |-> ByteAt(data, i, fill)],
     port |-> common_read_16_bit(<<ByteAt(data, 17, fill),
                                   ByteAt(data, 18, fill)>>),
     eui_64 |-> [i \in 1 .. 8 |-> ByteAt(data, 18 + i, fill)],
     tag |-> ByteAt(data, 27, fill)]

\* line 219: memset(&addr, 0, sizeof(kmp_addr_t))
ZeroAddr ==
    [relay_address |-> [i \in 1 .. 16 |-> 0], port |-> 0,
     eui_64 |-> [i \in 1 .. 8 |-> 0]]

----------------------------------------------------------------------------
(* kmp_socket_if_send *)

\* a null addr and a null pdu
NullKmpAddr == [relay_address |-> <<>>, port |-> 0, eui_64 |-> <<>>]
NullPdu == <<>>

\* what kmp_socket_if_send may read from a released entry it resolved
StaleForSend ==
    {[ReleasedEntry EXCEPT !.relay = r, !.address = ep[1],
                           !.identifier = ep[2], !.socket_id = h] :
        r \in BOOLEAN, ep \in Endpoints, h \in {-1} \cup SocketIds}

ObserveForSend(e) == IF e.released THEN StaleForSend ELSE {e}

\* lines 162-167: the loop breaks at the first match
SendLookup(service, instance_id) ==
    LET hits == {i \in LiveIndices :
                    /\ kmp_socket_if_list[i].kmp_service = service
                    /\ kmp_socket_if_list[i].instance_id = instance_id}
    IN  {IF hits \cup S = {} THEN 0 ELSE MinOf(hits \cup S) :
            S \in SUBSET ReleasedIndices}

\* the entries a loop that stopped at found (0: ran to the end) has read
Visited(found) == IF found = 0 THEN Indices ELSE 1 .. found

\* a pdu that is released on the early return too
SendFreesAlways(found) == 1

\* line 185, and the early returns of lines 157 and 170 that free nothing
SendFrees(found) == IF found = 0 THEN 0 ELSE 1

\* a pdu that is sent as it was handed in
WireBytesRaw(e, pdu, addr, kmp_id) == pdu

\* lines 173-182
WireBytes(e, pdu, addr, kmp_id) ==
    IF e.relay THEN WriteHeader(pdu, addr, kmp_id) ELSE pdu

kmp_socket_if_send(service, instance_id, kmp_id, addr, pdu) ==
    IF service = NULL \/ pdu = NullPdu \/ addr = NullKmpAddr
    THEN \* lines 156-158
         /\ last' = [Quiet EXCEPT !.op = "send", !.ret = -1,
                                  !.null_pdu = (pdu = NullPdu)]
         /\ UNCHANGED <<kmp_socket_if_list, kmp_socket_if_instance_id,
                        sockets, unregistered, allocated>>
    ELSE \E found \in SendLookup(service, instance_id) :
         /\ UNCHANGED <<kmp_socket_if_list, kmp_socket_if_instance_id,
                        sockets, unregistered, allocated>>
         /\ IF found = 0
            THEN \* lines 169-171
                 last' = [Quiet EXCEPT !.op = "send", !.ret = -1,
                             !.pdu_frees = SendFrees(found),
                             !.stale_access = (ReleasedIndices # {})]
            ELSE \E e \in ObserveForSend(kmp_socket_if_list[found]),
                    sent \in BOOLEAN :
                 \* line 184: the result of socket_sendto is not looked at
                 last' = [Quiet EXCEPT !.op = "send", !.ret = 0,
                             !.found = found,
                             !.kmp_id = kmp_id, !.addr = addr, !.pdu = pdu,
                             !.transport =
                                 <<(<<"sendto", e.socket_id,
                                      <<e.address, e.identifier>>,
                                      WireBytes(e, pdu, addr, kmp_id),
                                      sent>>)>>,
                             !.pdu_frees = SendFrees(found),
                             !.stale_access =
                                 (Visited(found) \cap ReleasedIndices # {})]

----------------------------------------------------------------------------
(* kmp_socket_if_socket_cb *)

SOCKET_DATA == 0
SOCKET_OTHER == 1

\* what kmp_socket_if_socket_cb may read from a released entry it resolved
StaleForCb ==
    {[ReleasedEntry EXCEPT !.kmp_service = s, !.instance_id = i, !.relay = r] :
        s \in Services, i \in InstanceIds, r \in BOOLEAN}

ObserveForCb(e) == IF e.released THEN StaleForCb ELSE {e}

\* lines 200-205: the loop breaks at the first match
CbLookup(socket_id) ==
    LET hits == {i \in LiveIndices :
                    kmp_socket_if_list[i].socket_id = socket_id}
    IN  {IF hits \cup S = {} THEN 0 ELSE MinOf(hits \cup S) :
            S \in SUBSET ReleasedIndices}

\* line 237: cb_data->d_len is a uint16_t
LenAfterHeader(d_len) == (d_len - SOCKET_IF_HEADER_SIZE) % Uint16Mod

\* lines 218-240: what is handed to kmp_service_msg_if_receive, <<>> when
\* the datagram is dropped
Forwarded(e, data, d_len, fill) ==
    IF e.relay
    THEN LET h == ParseHeader(data, fill)
             type == kmp_api_type_from_id_get(h.tag)
         IN  IF type = KMP_TYPE_NONE THEN <<>>
             ELSE <<(<<"msg_if_receive", e.kmp_service, e.instance_id, type,
                       [relay_address |-> h.relay_address, port |-> h.port,
                        eui_64 |-> h.eui_64],
                       SOCKET_IF_HEADER_SIZE, LenAfterHeader(d_len)>>)>>
    ELSE <<(<<"msg_if_receive", e.kmp_service, e.instance_id, KMP_TYPE_NONE,
              ZeroAddr, 0, d_len>>)>>

\* ways out that keep the buffer
KeptOnShortRead(allocs) == 0
KeptOnUnknownType(allocs) == 0
KeptAfterForward(allocs) == 0

\* lines 214, 234 and 242: ns_dyn_mem_free(pdu) on each way out after the
\* allocation of line 211, for allocs buffers held (0 when pdu is NULL)
FreesOnShortRead(allocs) == allocs
FreesOnUnknownType(allocs) == allocs
FreesAfterForward(allocs) == allocs

\* data is what socket_recvfrom read; ok is FALSE when it returned something
\* other than the d_len of the event
kmp_socket_if_socket_cb(event_type, socket_id, data, ok) ==
    /\ UNCHANGED <<kmp_socket_if_list, kmp_socket_if_instance_id,
                   sockets, unregistered, allocated>>
    /\ IF event_type # SOCKET_DATA
       THEN \* lines 194-196
            last' = [Quiet EXCEPT !.op = "recv", !.socket_id = socket_id]
       ELSE \E found \in CbLookup(socket_id) :
            IF found = 0
            THEN \* lines 207-209
                 last' = [Quiet EXCEPT !.op = "recv", !.socket_id = socket_id,
                             !.stale_access = (ReleasedIndices # {})]
            ELSE \E alloc_ok \in BOOLEAN :
                 LET d_len == Len(data)
                     allocs == IF alloc_ok THEN 1 ELSE 0
                     buf == IF alloc_ok THEN data ELSE <<>>
                     base == [Quiet EXCEPT
                                 !.op = "recv", !.socket_id = socket_id,
                                 !.found = found,
                                 !.pdu_allocs = allocs,
                                 !.null_pdu = ~alloc_ok,
                                 !.d_len = d_len,
                                 !.stale_access =
                                     (Visited(found) \cap ReleasedIndices # {})]
                 IN  IF ~ok
                     THEN \* lines 213-216
                          last' = [base EXCEPT
                                      !.short_read = TRUE,
                                      !.pdu_frees = FreesOnShortRead(allocs)]
                     ELSE \E e \in ObserveForCb(kmp_socket_if_list[found]),
                             fill \in OutOfBounds :
                          LET calls == Forwarded(e, buf, d_len, fill)
                          IN  last' = [base EXCEPT
                                  !.relay = e.relay,
                                  !.tag = IF e.relay
                                          THEN ParseHeader(buf, fill).tag
                                          ELSE 0,
                                  !.service_calls = calls,
                                  !.pdu_frees =
                                      IF calls = <<>>
                                      THEN FreesOnUnknownType(allocs)
                                      ELSE FreesAfterForward(allocs)]

----------------------------------------------------------------------------
(* The calls made on the adapter *)

Init ==
    /\ kmp_socket_if_list = <<>>
    /\ kmp_socket_if_instance_id = 1
    /\ sockets = {}
    /\ unregistered = {}
    /\ allocated = {}
    /\ last = Quiet

\* the arguments register is called with: every combination of non-null
\* arguments, and one call for each null argument
RegisterArgs(S, R, EP) ==
    (S \X InstanceIds \X R \X EP)
        \cup {<<NULL, 0, FALSE, <<0, 0>>>>, <<1, 0, FALSE, <<NullAddr, 0>>>>}

\* the event loop runs one handler at a time: a call is made when the
\* previous one has returned
Idle == last.op = "none"

\* the handler returns to the event loop
Return ==
    /\ ~Idle
    /\ last' = Quiet
    /\ UNCHANGED <<kmp_socket_if_list, kmp_socket_if_instance_id, sockets,
                   unregistered, allocated>>

RegisterOver(S, R, EP, max_len, max_counter) ==
    \E a \in RegisterArgs(S, R, EP) :
        /\ Idle
        /\ kmp_socket_if_register(a[1], a[2], a[3], a[4][1], a[4][2])
        /\ Len(kmp_socket_if_list') <= max_len
        /\ kmp_socket_if_instance_id' <= max_counter

\* a kmp_addr_t and a pdu with the header space reserved in front of the
\* payload 0xAA 0xBB
RelayAddr ==
    [relay_address |-> [i \in 1 .. 16 |-> 32 + i], port |-> 258,
     eui_64 |-> [i \in 1 .. 8 |-> 64 + i]]
Payload == <<170, 187>>
Pdu == [i \in 1 .. SOCKET_IF_HEADER_SIZE |-> 0] \o Payload

\* the datagrams that arrive: the bare payload, and the payload behind a
\* relay header with a known and with an unknown message-type tag
UnknownTag == 9
Datagrams ==
    {Payload, WriteHeader(Pdu, RelayAddr, 5),
     WriteHeader(Pdu, RelayAddr, UnknownTag)}

SendArgs(S, T) ==
    (S \X InstanceIds \X T \X {RelayAddr} \X {Pdu})
        \cup {<<NULL, 0, 1, RelayAddr, Pdu>>, <<1, 0, 1, NullKmpAddr, Pdu>>,
              <<1, 0, 1, RelayAddr, NullPdu>>}

SendOver(S, T) ==
    \E a \in SendArgs(S, T) :
        /\ Idle
        /\ kmp_socket_if_send(a[1], a[2], a[3], a[4], a[5])

ReceiveOver(D) ==
    \E event_type \in {SOCKET_DATA, SOCKET_OTHER}, socket_id \in SocketIds,
       data \in D, ok \in BOOLEAN :
        /\ Idle
        /\ kmp_socket_if_socket_cb(event_type, socket_id, data, ok)

\* Every call on up to MaxBindings bindings of the services
RegisterCall ==
    RegisterOver(Services, BOOLEAN, Endpoints, MaxBindings, MaxCounter)
UnregisterCall ==
    \E service \in Services \cup {NULL} :
        /\ Idle
        /\ kmp_socket_if_unregister(service)
SendCall == SendOver(Services, {1})
ReceiveCall == ReceiveOver(Datagrams)

Next == RegisterCall \/ UnregisterCall \/ SendCall \/ ReceiveCall \/ Return

Spec == Init /\ [][Next]_vars

\* One service that registers with id 0, unregisters and registers again,
\* the counter running through its whole range
WrapRegisterCall ==
    /\ kmp_socket_if_list = <<>>
    /\ RegisterOver({1}, {FALSE}, {<<1, 1>>}, MaxBindings, Uint8Mod - 1)
    /\ last'.id_in = 0
WrapUnregisterCall == Idle /\ kmp_socket_if_unregister(1)

NextWrap == WrapRegisterCall \/ WrapUnregisterCall \/ Return

SpecWrap == Init /\ [][NextWrap]_vars

\* One service whose bindings send and receive: relay and plain bindings
\* on two endpoints, every datagram, sends with two message types
DataRegisterCall ==
    RegisterOver({1}, BOOLEAN, {<<0, 0>>, <<1, 1>>}, MaxBindings, MaxCounter)
DataUnregisterCall == Idle /\ kmp_socket_if_unregister(1)
DataSendCall == SendOver({1}, {1, 5})
DataReceiveCall == ReceiveOver(Datagrams)

NextData ==
    \/ DataRegisterCall
    \/ DataUnregisterCall
    \/ DataSendCall
    \/ DataReceiveCall
    \/ Return

SpecData == Init /\ [][NextData]_vars

\* A relay binding whose transmitted datagrams come back to the adapter:
\* every header the send path writes is parsed by the receive path
CodecAddrs ==
    {[relay_address |-> ra, port |-> p, eui_64 |-> eu] :
        ra \in {[i \in 1 .. 16 |-> 32 + i], [i \in 1 .. 16 |-> 255]},
        p \in {0, 258, 65535},
        eu \in {[i \in 1 .. 8 |-> 64 + i], [i \in 1 .. 8 |-> 0]}}

CodecRegisterCall ==
    /\ kmp_socket_if_list = <<>>
    /\ RegisterOver({1}, {TRUE}, {<<1, 1>>}, MaxBindings, MaxCounter)
CodecSendCall ==
    \E a \in CodecAddrs, t \in RegisteredTags, id \in InstanceIds :
        /\ Idle
        /\ kmp_socket_if_send(1, id, t, a, Pdu)
CodecReceiveCall ==
    /\ last.op = "send" /\ last.ret = 0
    /\ \E socket_id \in SocketIds, ok \in BOOLEAN :
          kmp_socket_if_socket_cb(SOCKET_DATA, socket_id,
                                  last.transport[1][4], ok)

NextCodec ==
    \/ CodecRegisterCall
    \/ CodecSendCall
    \/ CodecReceiveCall
    \/ Return

SpecCodec == Init /\ [][NextCodec]_vars

----------------------------------------------------------------------------
(* C1: no two bindings in the registry have the same (service, instance_id)
   pair; in particular registering the same service and instance id again
   leaves one binding for the pair. *)
C1_OneBindingPerPair ==
    \A i, j \in LiveIndices :
        i # j =>
            \/ kmp_socket_if_list[i].kmp_service
                    # kmp_socket_if_list[j].kmp_service
            \/ kmp_socket_if_list[i].instance_id
                    # kmp_socket_if_list[j].instance_id

(* C2 as stated: a register call that resolves a binding of the registry
   and changes its remote address or port closes the binding's old socket
   and then opens one, and the binding never holds the old socket id again
   afterwards; with the endpoint unchanged and a socket held, it neither
   closes nor opens. *)
C2_ReopenedOnFreshHandle ==
    [][(/\ last'.op = "register"
        /\ last'.found # 0
        /\ ~kmp_socket_if_list[last'.found].released)
       => LET old == kmp_socket_if_list[last'.found].socket_id
          IN  IF last'.changed
              THEN \E h \in {-1} \cup SocketIds :
                      /\ last'.transport = << <<"close", old>>, <<"open", h>> >>
                      /\ last'.ret = 0 =>
                            /\ kmp_socket_if_list'[last'.found].socket_id = h
                            /\ h # old
              ELSE old >= 0 => last'.transport = <<>>]_vars

(* C2 as amended: a register call that resolves a binding of the registry
   and changes its remote address or port makes exactly the transport calls
   close(old socket id), open; when it succeeds the binding holds the id the
   open returned, which is open and may be the old id again; with the
   endpoint unchanged and a socket held, it neither closes nor opens. *)
C2_ClosedThenOpened ==
    [][(/\ last'.op = "register"
        /\ last'.found # 0
        /\ ~kmp_socket_if_list[last'.found].released)
       => LET old == kmp_socket_if_list[last'.found].socket_id
          IN  IF last'.changed
              THEN \E h \in {-1} \cup SocketIds :
                      /\ last'.transport = << <<"close", old>>, <<"open", h>> >>
                      /\ last'.ret = 0 =>
                            /\ kmp_socket_if_list'[last'.found].socket_id = h
                            /\ h \in sockets'
              ELSE old >= 0 => last'.transport = <<>>]_vars

\* a binding whose endpoint changed got its old socket id back
C2_ReopenedOnSameHandle ==
    /\ last.op = "register" /\ last.ret = 0
    /\ last.found # 0 /\ last.changed /\ ~last.stale_access
    /\ Len(last.transport) = 2
    /\ last.transport[1][2] = last.transport[2][2]

\* a register call that asked for an id and got as far as writing one back
Allocation ==
    /\ last.op = "register" /\ last.id_in = 0
    /\ (last.new \/ last.found # 0)

(* C3 as stated: every id written back for a request of id 0 is nonzero and
   differs from every id written back before. *)
C3_AllDistinct == Allocation => (last.id_out # 0 /\ ~last.repeat)

(* C3 as amended: every id written back for a request of id 0 is nonzero,
   and an id is written back a second time only when all 255 nonzero values
   of the 8-bit counter have been handed out. *)
C3_DistinctUntilExhausted ==
    Allocation =>
        /\ last.id_out \in 1 .. (Uint8Mod - 1)
        /\ last.repeat => Cardinality(allocated) = Uint8Mod - 1

\* an id is handed out again after the counter has wrapped
C3_RepeatAfterWrap == Allocation /\ last.repeat /\ last.ret = 0

(* C4: every entry linked in the registry is a live binding, never one that
   a failed register call has released. *)
C4_NoReleasedEntryLinked == ReleasedIndices = {}

(* C5: a register call that resolved no existing binding and fails leaves
   the list as it was; one that succeeds appends one live entry whose socket
   is open, so the registry never holds a socket-less new entry. *)
C5_FailedNewBindingDiscarded ==
    [][(last'.op = "register" /\ last'.found = 0)
       => IF last'.ret = -1
          THEN kmp_socket_if_list' = kmp_socket_if_list
          ELSE LET n == Len(kmp_socket_if_list')
               IN  /\ n = Len(kmp_socket_if_list) + 1
                   /\ SubSeq(kmp_socket_if_list', 1, n - 1) = kmp_socket_if_list
                   /\ ~kmp_socket_if_list'[n].released
                   /\ kmp_socket_if_list'[n].socket_id \in sockets']_vars

\* a new binding was refused by the service layer while the registry held
\* another binding
C5_NewBindingRefused ==
    /\ last.op = "register" /\ last.new /\ last.ret = -1
    /\ last.service_calls # <<>>
    /\ Len(kmp_socket_if_list) > 0

(* C6 as stated: every send call that is given a pdu releases it exactly
   once, whatever the exit path. *)
C6_ReleasedOnEveryPath ==
    (last.op = "send" /\ ~last.null_pdu) => last.pdu_frees = 1

(* C6 as amended: a send call that resolves a binding makes one transmit
   attempt, releases the pdu exactly once whether or not the transmit
   succeeded and returns 0; a send call that returns -1 (a null argument, no
   binding for the instance) transmits nothing and releases nothing. *)
C6_ReleasedOnceWhenSent ==
    last.op = "send" =>
        /\ last.ret = 0 => (Len(last.transport) = 1 /\ last.pdu_frees = 1)
        /\ last.ret = -1 => (last.transport = <<>> /\ last.pdu_frees = 0)

\* the transmit failed and the pdu was released
C6_ReleasedAfterFailedTransmit ==
    /\ last.op = "send" /\ last.ret = 0 /\ last.pdu_frees = 1
    /\ ~last.stale_access
    /\ last.transport[1][5] = FALSE

\* the number of close calls for socket id h among the transport calls t
Closes(t, h) == Cardinality({k \in 1 .. Len(t) : t[k] = <<"close", h>>})

(* C7: after unregister(service) no binding of the registry is owned by the
   service, the socket of each binding it removed was closed exactly once,
   and the service layer was told that the instance of each has no send
   path. *)
C7_UnregisterRemovesAll ==
    [][(last'.op = "unregister" /\ last'.ret = 0)
       => LET s == last'.service
              mine == {i \in LiveIndices :
                          kmp_socket_if_list[i].kmp_service = s}
          IN  /\ \A k \in 1 .. Len(kmp_socket_if_list') :
                    \/ kmp_socket_if_list'[k].released
                    \/ kmp_socket_if_list'[k].kmp_service # s
              /\ \A i \in mine :
                    /\ Closes(last'.transport,
                              kmp_socket_if_list[i].socket_id) = 1
                    /\ \E k \in 1 .. Len(last'.service_calls) :
                          last'.service_calls[k] =
                              MsgIfRegister(s, kmp_socket_if_list[i].instance_id,
                                            FALSE, 0)]_vars

(* C8: a receive event for a socket id that a binding removed by unregister
   held, and that was not opened again since, forwards nothing to the
   service layer and reads no released entry. *)
C8_FormerHandleIgnored ==
    (last.op = "recv" /\ last.socket_id \in unregistered)
        => (last.service_calls = <<>> /\ ~last.stale_access)

(* C9: every binding in the registry holds the id of a socket that is open
   in the transport. *)
C9_EveryBindingOpen ==
    \A i \in Indices :
        /\ ~kmp_socket_if_list[i].released
        /\ kmp_socket_if_list[i].socket_id \in sockets

(* C10: every binding in the registry has a nonzero instance_id. *)
C10_NonzeroInstanceId ==
    \A i \in LiveIndices : kmp_socket_if_list[i].instance_id # 0

(* C11: a data event whose read returns something other than the reported
   datagram length forwards nothing to the service layer and releases the
   scratch buffer it allocated. *)
C11_ShortReadDropped ==
    (last.op = "recv" /\ last.short_read)
        => /\ last.service_calls = <<>>
           /\ last.pdu_frees = last.pdu_allocs

\* a short read on the socket of a binding, with a buffer allocated
C11_ShortReadSeen ==
    /\ last.op = "recv" /\ last.short_read
    /\ last.found # 0 /\ ~last.stale_access
    /\ last.pdu_allocs = 1 /\ last.pdu_frees = 1

(* C12: a data event on a relay binding whose header's tag byte maps to the
   none type forwards nothing to the service layer and releases the
   buffer. *)
C12_UnknownTypeDropped ==
    (/\ last.op = "recv" /\ last.found # 0 /\ ~last.short_read
     /\ last.relay
     /\ kmp_api_type_from_id_get(last.tag) = KMP_TYPE_NONE)
        => /\ last.service_calls = <<>>
           /\ last.pdu_frees = last.pdu_allocs

\* a whole datagram with an unknown tag arrived on a live relay binding
C12_UnknownTagSeen ==
    /\ last.op = "recv" /\ last.found # 0 /\ ~last.short_read
    /\ ~last.stale_access
    /\ kmp_socket_if_list[last.found].relay
    /\ last.d_len > SOCKET_IF_HEADER_SIZE
    /\ last.tag = UnknownTag
    /\ last.pdu_allocs = 1 /\ last.pdu_frees = 1

(* C13: when the datagram a relay binding transmitted for relay address R,
   port Q, peer identifier E and a registered message type T is read whole
   by the receive path of a relay binding, what is forwarded to the service
   layer carries exactly R, Q, E and T, with the payload behind the 27
   header bytes. *)
C13_HeaderRoundTrip ==
    [][(/\ last.op = "send" /\ last'.op = "recv"
        /\ last'.found # 0 /\ ~last'.short_read /\ ~last'.null_pdu
        /\ kmp_socket_if_list[last'.found].relay)
       => LET e == kmp_socket_if_list[last'.found]
          IN  last'.service_calls =
                  <<(<<"msg_if_receive", e.kmp_service, e.instance_id,
                       last.kmp_id,
                       [relay_address |-> last.addr.relay_address,
                        port |-> last.addr.port,
                        eui_64 |-> last.addr.eui_64],
                       SOCKET_IF_HEADER_SIZE,
                       Len(last.pdu) - SOCKET_IF_HEADER_SIZE>>)>>]_vars

\* a header with the largest port, an all-0xFF relay address and type 7 was
\* written, read back and forwarded
C13_RoundTripSeen ==
    /\ last.op = "recv" /\ last.service_calls # <<>>
    /\ last.service_calls[1][4] = 7
    /\ last.service_calls[1][5].port = 65535
    /\ last.service_calls[1][5].relay_address = [i \in 1 .. 16 |-> 255]
    /\ last.service_calls[1][5].eui_64 = [i \in 1 .. 8 |-> 64 + i]
    /\ last.service_calls[1][7] = Len(Payload)

\* R (16) || Q (2, big-endian) || E (8) || T (1) || payload, for a pdu that
\* carries the payload behind 27 reserved bytes
ExpectedWire(addr, kmp_id, pdu) ==
    addr.relay_address \o <<addr.port \div 256, addr.port % 256>>
        \o addr.eui_64 \o <<kmp_id>>
        \o SubSeq(pdu, SOCKET_IF_HEADER_SIZE + 1, Len(pdu))

(* C14: a send that resolves a live relay binding transmits the bytes
   R || Q (big-endian) || E || T || payload to the endpoint stored in the
   binding; one that resolves a live plain binding transmits the pdu as it
   was handed in, to the endpoint stored in the binding. *)
C14_WireFormat ==
    (/\ last.op = "send" /\ last.ret = 0
     /\ ~kmp_socket_if_list[last.found].released)
        => LET e == kmp_socket_if_list[last.found]
               bytes == IF e.relay
                        THEN ExpectedWire(last.addr, last.kmp_id, last.pdu)
                        ELSE last.pdu
           IN  \E sent \in BOOLEAN :
                   last.transport =
                       <<(<<"sendto", e.socket_id,
                            <<e.address, e.identifier>>, bytes, sent>>)>>

\* a relay binding for endpoint (1, 1) sent the payload 0xAA 0xBB with tag 5
C14_RelaySendSeen ==
    /\ last.op = "send" /\ last.ret = 0 /\ last.kmp_id = 5
    /\ ~kmp_socket_if_list[last.found].released
    /\ kmp_socket_if_list[last.found].relay
    /\ last.transport[1][3] = <<1, 1>>
    /\ last.transport[1][4] =
           [i \in 1 .. 16 |-> 32 + i] \o <<1, 2>>
               \o [i \in 1 .. 8 |-> 64 + i] \o <<5, 170, 187>>

(* C15: after a register call succeeds on a live binding, the one call made
   to the service layer declares, for the id of the call, the send-path
   entry point together with an overhead of 27 when the binding's relay flag
   is set and of 0 when it is not. *)
C15_HeaderOverheadDeclared ==
    (last.op = "register" /\ last.ret = 0)
        => LET k == IF last.new THEN Len(kmp_socket_if_list) ELSE last.found
               e == kmp_socket_if_list[k]
           IN  ~e.released =>
                   last.service_calls =
                       <<MsgIfRegister(e.kmp_service, last.id_out, TRUE,
                                       IF e.relay THEN 27 ELSE 0)>>

\* a re-registration turned a plain binding into a relay binding
C15_RelayFlagFlipped ==
    /\ last.op = "register" /\ last.ret = 0
    /\ last.flipped /\ ~last.stale_access
    /\ kmp_socket_if_list[last.found].relay
    /\ last.service_calls[1][5] = SOCKET_IF_HEADER_SIZE

(* C16: every receive event releases exactly the buffers it allocated: one
   on each way out after the allocation (short read, unknown type, after
   forwarding), none on the ways out before it. *)
C16_ScratchReleasedOnce ==
    last.op = "recv" =>
        /\ last.pdu_frees = last.pdu_allocs
        /\ last.found = 0 => last.pdu_allocs = 0

\* a datagram was forwarded and its buffer released
C16_ReleasedAfterForward ==
    /\ last.op = "recv" /\ last.service_calls # <<>>
    /\ ~last.stale_access
    /\ last.pdu_allocs = 1 /\ last.pdu_frees = 1

(* C17: after every register call the allocation counter is not 0. *)
C17_CounterNeverZero == kmp_socket_if_instance_id # 0

(* C18: every socket that is open is the socket of exactly one binding of
   the registry. *)
C18_EverySocketOwned ==
    \A h \in sockets :
        Cardinality({i \in LiveIndices :
                        kmp_socket_if_list[i].socket_id = h}) = 1

(* C19: after a register call succeeds, the binding it made or updated
   carries the instance id of the call (the caller's nonzero id, or the id
   written back), which is the id given to the service layer. *)
C19_StoredIdIsRegisteredId ==
    (last.op = "register" /\ last.ret = 0)
        => LET k == IF last.new THEN Len(kmp_socket_if_list) ELSE last.found
               e == kmp_socket_if_list[k]
           IN  ~e.released => e.instance_id = last.id_out

(* C20: every message forwarded for a relay binding comes from a datagram
   of at least 27 bytes, at offset 27 and with the datagram length minus 27
   as its length, which does not exceed the datagram length. *)
C20_ForwardedInsideDatagram ==
    (last.op = "recv" /\ last.relay /\ last.service_calls # <<>>)
        => /\ last.d_len >= SOCKET_IF_HEADER_SIZE
           /\ last.service_calls[1][6] = SOCKET_IF_HEADER_SIZE
           /\ last.service_calls[1][7] = last.d_len - SOCKET_IF_HEADER_SIZE
           /\ last.service_calls[1][7] <= last.d_len
====
